---- MODULE Spec2Model ----
(***************************************************************************)
(* A model of cube_tools/core/data_objects.py: the containers BaseData,    *)
(* CubeData, SpectrumData and ImageData, their constructors, arithmetic,   *)
(* slicing, reductions and FITS export.                                    *)
(*                                                                         *)
(* Objects live in `heap` (a sequence; an object's identity is its index). *)
(* `files` is the persistent storage export_fits writes to.  `last` holds  *)
(* the most recent call: its name, receiver, arguments, the exception it   *)
(* raised ("" when it returned), the identity of the object it returned    *)
(* and any other returned value.  `assigned` is a history variable: the    *)
(* value last assigned to each object's dispersion, if any.                *)
(*                                                                         *)
(* Array cells are pairs <<n, d>>:                                         *)
(*   d > 0   the float n/d, exactly (no rounding is modelled);             *)
(*   d = 0   a float this model does not track (inf, nan, or a value       *)
(*           computed by astropy's uncertainty propagation);               *)
(*   d = -1  a numpy bool, n = 1 for True and n = 0 for False.             *)
(* An optional value is << >> (None) or <<v>>.                             *)
(***************************************************************************)
EXTENDS Integers, Sequences, FiniteSets, TLC

VARIABLES heap, files, last, assigned

vars == <<heap, files, last, assigned>>

\* ---------------------------------------------------------------- bounds

\* Longest spectral axis (axis 0) of a constructed container.
MaxN == 2

\* Longest spatial axis (axes 1 and 2) of a constructed container.
MaxSide == 2

\* Most cells in a constructed array.
MaxCells == 4

\* Most objects alive at once.
MaxObjs == 2

\* ---------------------------------------------------------------- cells

None == << >>

Some(v) == <<v>>

Float == <<0, 0>>

BTrue == <<1, -1>>

BFalse == <<0, -1>>

Bool(b) == IF b THEN BTrue ELSE BFalse

IsNum(v) == v[2] > 0

IsBool(v) == v[2] = -1

Abs(n) == IF n < 0 THEN -n ELSE n

RECURSIVE GCD(_, _)
GCD(a, b) == IF b = 0 THEN a ELSE GCD(b, a % b)

\* The float n/d in lowest terms, d # 0.
Rat(n, d) ==
    LET g == GCD(Abs(n), Abs(d))
        s == IF d < 0 THEN -1 ELSE 1
    IN  <<(s * n) \div g, (s * d) \div g>>

Num(k) == <<k, 1>>

\* bool operands count as 0 and 1 in numpy arithmetic
AsNum(v) == IF IsBool(v) THEN Num(v[1]) ELSE v

RAdd(a, b) ==
    LET x == AsNum(a)
        y == AsNum(b)
    IN  IF IsNum(x) /\ IsNum(y)
        THEN Rat(x[1] * y[2] + y[1] * x[2], x[2] * y[2]) ELSE Float

RSub(a, b) ==
    LET x == AsNum(a)
        y == AsNum(b)
    IN  IF IsNum(x) /\ IsNum(y)
        THEN Rat(x[1] * y[2] - y[1] * x[2], x[2] * y[2]) ELSE Float

RMul(a, b) ==
    LET x == AsNum(a)
        y == AsNum(b)
    IN  IF IsNum(x) /\ IsNum(y) THEN Rat(x[1] * y[1], x[2] * y[2]) ELSE Float

\* float division: a zero divisor gives inf or nan, not an exception
RDiv(a, b) ==
    LET x == AsNum(a)
        y == AsNum(b)
    IN  IF IsNum(x) /\ IsNum(y) /\ y[1] # 0
        THEN Rat(x[1] * y[2], x[2] * y[1]) ELSE Float

RLess(a, b) == a[1] * b[2] < b[1] * a[2]

\* numpy truth value of a cell (np.logical_not, np.logical_or, ~bool)
Truthy(v) == IF IsNum(v) \/ IsBool(v) THEN v[1] # 0 ELSE TRUE

\* ndarray.astype(int): bool to 0/1, float truncated toward zero
AsInt(v) ==
    IF IsBool(v) THEN Num(v[1])
    ELSE IF IsNum(v)
         THEN Num((IF v[1] < 0 THEN -1 ELSE 1) * (Abs(v[1]) \div v[2]))
         ELSE Float

\* ---------------------------------------------------------------- arrays

\* Every index tuple of an array of shape s (up to three axes).
Idx(s) ==
    CASE Len(s) = 0 -> {<< >>}
      [] Len(s) = 1 -> {<<a>> : a \in 0..(s[1] - 1)}
      [] Len(s) = 2 -> {<<a, b>> : a \in 0..(s[1] - 1), b \in 0..(s[2] - 1)}
      [] Len(s) = 3 -> {<<a, b, c>> : a \in 0..(s[1] - 1), b \in 0..(s[2] - 1),
                                      c \in 0..(s[3] - 1)}

Arr(s, f) == [shape |-> s, at |-> f]

Full(s, v) == Arr(s, [t \in Idx(s) |-> v])

RECURSIVE Prod(_)
Prod(s) == IF s = << >> THEN 1 ELSE s[1] * Prod(Tail(s))

Size(a) == Prod(a.shape)

\* shape with axis ax (0-based) removed
DropAxis(s, ax) == [k \in 1..(Len(s) - 1) |-> IF k <= ax THEN s[k] ELSE s[k + 1]]

\* index t of the reduced array with coordinate c put back on axis ax
PutAxis(t, ax, c) ==
    [k \in 1..(Len(t) + 1) |->
        IF k <= ax THEN t[k] ELSE IF k = ax + 1 THEN c ELSE t[k - 1]]

\* a[:, i, j] of a three-axis array: IndexError is the caller's to raise
InRange3(a, i, j) == i < a.shape[2] /\ j < a.shape[3]

Slice3(a, i, j) ==
    Arr(<<a.shape[1]>>, [t \in Idx(<<a.shape[1]>>) |-> a.at[<<t[1], i, j>>]])

\* a[start:stop, ...] on axis 0 (python slice: clipped to the axis)
Min(x, y) == IF x < y THEN x ELSE y

Slice0(a, start, stop) ==
    LET hi == Min(stop, a.shape[1])
        n  == IF hi > start THEN hi - start ELSE 0
        s  == [a.shape EXCEPT ![1] = n]
    IN  Arr(s, [t \in Idx(s) |-> a.at[[t EXCEPT ![1] = t[1] + start]]])

\* np.swapaxes(a, ax1, ax2), both axes in range
SwapIdx(t, ax1, ax2) ==
    [k \in 1..Len(t) |->
        IF k = ax1 + 1 THEN t[ax2 + 1] ELSE IF k = ax2 + 1 THEN t[ax1 + 1] ELSE t[k]]

SwapAxes(a, ax1, ax2) ==
    LET s == SwapIdx(a.shape, ax1, ax2)
    IN  Arr(s, [t \in Idx(s) |-> a.at[SwapIdx(t, ax1, ax2)]])

LogicalNot(v) == Bool(~Truthy(v))

\* ~filter_mask / np.logical_not(filter_mask)
Invert(a) == Arr(a.shape, [t \in Idx(a.shape) |-> LogicalNot(a.at[t])])

\* a.astype(int)
AsType(a) == Arr(a.shape, [t \in Idx(a.shape) |-> AsInt(a.at[t])])

\* ---------------------------------------------------------------- masked arrays

\* np.ma.masked_array(data, mask=m): m is None (nomask) or <<array of bools>>
\* (True = excluded).
Masked(d, m) == [data |-> d, mask |-> m]

IsMasked(ma, t) == ma.mask # None /\ Truthy(ma.mask[1].at[t])

\* the cells along axis ax that enter the reduction at reduced index t
Kept(ma, ax, t) ==
    {c \in 0..(ma.data.shape[ax + 1] - 1) : ~IsMasked(ma, PutAxis(t, ax, c))}

RECURSIVE SumCells(_, _, _, _)
SumCells(ma, ax, t, cs) ==
    IF cs = {} THEN Num(0)
    ELSE LET c == CHOOSE x \in cs : TRUE
         IN  RAdd(ma.data.at[PutAxis(t, ax, c)], SumCells(ma, ax, t, cs \ {c}))

\* MaskedArray.sum(axis): the sum of filled(0); masked where every cell is
MaskedSum(ma, ax) ==
    LET s == DropAxis(ma.data.shape, ax)
    IN  Masked(Arr(s, [t \in Idx(s) |-> SumCells(ma, ax, t, Kept(ma, ax, t))]),
               IF ma.mask = None THEN None
               ELSE Some(Arr(s, [t \in Idx(s) |-> Bool(Kept(ma, ax, t) = {})])))

\* MaskedArray.mean(axis): sum / count; where nothing was counted the result
\* is masked and its data is the sum, 0.  Without a mask it is ndarray.mean.
MeanCell(ma, ax, t) ==
    LET k == Kept(ma, ax, t)
    IN  IF k = {} THEN (IF ma.mask = None THEN Float ELSE Num(0))
        ELSE RDiv(SumCells(ma, ax, t, k), Num(Cardinality(k)))

MaskedMean(ma, ax) ==
    LET s == DropAxis(ma.data.shape, ax)
    IN  Masked(Arr(s, [t \in Idx(s) |-> MeanCell(ma, ax, t)]),
               IF ma.mask = None THEN None
               ELSE Some(Arr(s, [t \in Idx(s) |-> Bool(Kept(ma, ax, t) = {})])))

\* the cell of rank r (1-based) among the kept cells along the axis
Ranked(ma, ax, t, r) ==
    LET k == Kept(ma, ax, t)
        v(c) == ma.data.at[PutAxis(t, ax, c)]
        c0 == CHOOSE c \in k :
                /\ Cardinality({x \in k : RLess(v(x), v(c))}) < r
                /\ r <= Cardinality({x \in k : ~RLess(v(c), v(x))})
    IN  v(c0)

\* np.ma.median(a, axis): the middle kept cell, or the mean of the two middle
\* ones; where nothing is kept the result is masked and its data unspecified.
MedianCell(ma, ax, t) ==
    LET k == Kept(ma, ax, t)
        m == Cardinality(k)
    IN  IF m = 0 \/ \E c \in k : ~IsNum(AsNum(ma.data.at[PutAxis(t, ax, c)]))
        THEN Float
        ELSE IF m % 2 = 1 THEN Ranked(ma, ax, t, (m + 1) \div 2)
        ELSE RDiv(RAdd(Ranked(ma, ax, t, m \div 2),
                       Ranked(ma, ax, t, m \div 2 + 1)), Num(2))

MaskedMedian(ma, ax) ==
    LET s == DropAxis(ma.data.shape, ax)
    IN  Masked(Arr(s, [t \in Idx(s) |-> MedianCell(ma, ax, t)]),
               IF ma.mask = None THEN None
               ELSE Some(Arr(s, [t \in Idx(s) |-> Bool(Kept(ma, ax, t) = {})])))

\* mdata[slice(start, stop), :, :]
MaskedSlice0(ma, start, stop) ==
    Masked(Slice0(ma.data, start, stop),
           IF ma.mask = None THEN None ELSE Some(Slice0(ma.mask[1], start, stop)))

\* ~new_mdata.mask: the validity sequence of collapse_to_spectrum
NotMask(ma) == Invert(ma.mask[1])

\* ---------------------------------------------------------------- coordinates

\* The coordinate mappings of the model: "None" (no wcs) and two three-axis
\* mappings, one with a linear and one with a logarithmic spectral axis.
\* Fields as astropy's wcs.wcs: crpix, crval, cdelt, cunit, ctype per axis,
\* and cd22 for cd[2][2].
WcsNames == {"None", "lin", "log"}

WcsOf(w) ==
    IF w = "log"
    THEN [crpix |-> <<1, 1, 0>>, crval |-> <<10, 20, 500>>, cdelt |-> <<2, 3, 1>>,
          cunit |-> <<"deg", "deg", "Angstrom">>,
          ctype |-> <<"RA---TAN", "DEC--TAN", "WAVE-LOG">>, cd22 |-> 1]
    ELSE [crpix |-> <<1, 1, 5>>, crval |-> <<10, 20, 400>>, cdelt |-> <<2, 3, 1>>,
          cunit |-> <<"deg", "deg", "nm">>,
          ctype |-> <<"RA---TAN", "DEC--TAN", "WAVE">>, cd22 |-> 1]

\* One coordinate value: <<"lin", v, 0, 0>> is v; <<"log", crval, cd, x>> is
\* crval * exp(cd * x / crval).
Lin(v) == <<"lin", v, 0, 0>>

WaveLog(crval, cd, x) == <<"log", crval, cd, x>>

\* u.Quantity(values, unit)
Quantity(vals, unit) == <<"Quantity", vals, unit>>

\* np.arange(start, stop): stop - start values from start, step 1
Arange(start, stop) ==
    [k \in 1..(IF stop > start THEN stop - start ELSE 0) |-> start + k - 1]

\* np.arange(start, start + step * n, step), step # 0
ArangeStep(start, step, n) == [k \in 1..n |-> Lin(start + (k - 1) * step)]

\* SpectrumData.__init__, the wcs branch: the dispersion axis
DeriveDispersion(w, shape) ==
    LET c == WcsOf(w)
        n == shape[1]
        ref == c.crpix[Len(c.crpix)]
        cand == Arange(ref, ref + n)
        disp_data == IF Len(cand) # n THEN Arange(0, n) ELSE cand
        disp_unit == IF Len(c.cunit) = 3 THEN c.cunit[Len(c.cunit)] ELSE c.cunit[1]
    IN  IF c.ctype[Len(c.ctype)] = "WAVE-LOG"
        THEN Quantity([k \in 1..Len(disp_data) |->
                          WaveLog(c.crval[3], c.cd22, disp_data[k] - c.crpix[3])],
                      disp_unit)
        ELSE Quantity([k \in 1..Len(disp_data) |-> Lin(disp_data[k])], disp_unit)

\* the linear axis over array axis ax (0-based) from crval, cdelt, cunit
DeriveLinear(w, shape, ax) ==
    LET c == WcsOf(w)
    IN  Quantity(ArangeStep(c.crval[ax + 1], c.cdelt[ax + 1], shape[ax + 1]),
                 c.cunit[ax + 1])

\* ---------------------------------------------------------------- objects

\* NDData.__init__ (astropy): the fields are stored as given, no shape check.
\* attrs are the instance attributes set by the subclass constructor; a
\* field not in attrs does not exist on the object.
NDData(cls, data, uncertainty, mask, wcs, meta, unit) ==
    [cls |-> cls, data |-> data, uncertainty |-> uncertainty, mask |-> mask,
     wcs |-> wcs, meta |-> meta, unit |-> unit,
     attrs |-> {}, dispersion |-> None, cross_dispersion |-> None,
     flux |-> None, error |-> None]

\* a raised exception, or the constructed object
Raise(e) == [exc |-> e, obj |-> NDData("", Full(<< >>, Float), None, None, "None", "", None)]

Return(o) == [exc |-> "", obj |-> o]

\* CubeData.__init__
NewCube(data, uncertainty, mask, wcs, meta, unit) ==
    Return(NDData("CubeData", data, uncertainty, mask, wcs, meta, unit))

\* SpectrumData.__init__: disp_data and disp_unit are bound only inside
\* `if self.wcs is not None`, and read after it.
NewSpectrum(data, uncertainty, mask, wcs, meta, unit) ==
    LET o == NDData("SpectrumData", data, uncertainty, mask, wcs, meta, unit)
    IN  IF wcs = "None" THEN Raise("UnboundLocalError")
        ELSE IF Len(data.shape) = 0 THEN Raise("IndexError")
        ELSE Return([o EXCEPT
               !.attrs = {"_dispersion", "_cross_dispersion", "_flux", "_error"},
               !.dispersion = Some(DeriveDispersion(wcs, data.shape)),
               !.cross_dispersion =
                   IF Len(data.shape) > 1 THEN Some(DeriveLinear(wcs, data.shape, 1))
                   ELSE None,
               !.flux = Some(Quantity(data, unit)),
               !.error = IF uncertainty # None
                         THEN Some(Quantity(uncertainty[1], unit)) ELSE None])

\* a constructor that reads the wcs without looking whether there is one;
\* C11_LateFailure tells it from NewImage
NewImage_unguarded(data, uncertainty, mask, wcs, meta, unit) ==
    LET o == NDData("ImageData", data, uncertainty, mask, wcs, meta, unit)
    IN  IF wcs = "None" THEN Raise("AttributeError")
        ELSE IF Len(data.shape) < 2 THEN Raise("IndexError")
        ELSE Return([o EXCEPT
               !.attrs = {"_dispersion", "_cross_dispersion"},
               !.dispersion = Some(DeriveLinear(wcs, data.shape, 0)),
               !.cross_dispersion = Some(DeriveLinear(wcs, data.shape, 1))])

\* ImageData.__init__: without a wcs nothing is derived and nothing raised
NewImage(data, uncertainty, mask, wcs, meta, unit) ==
    LET o == NDData("ImageData", data, uncertainty, mask, wcs, meta, unit)
    IN  IF wcs = "None" THEN Return(o)
        ELSE IF Len(data.shape) < 2 THEN Raise("IndexError")
        ELSE Return([o EXCEPT
               !.attrs = {"_dispersion", "_cross_dispersion"},
               !.dispersion = Some(DeriveLinear(wcs, data.shape, 0)),
               !.cross_dispersion = Some(DeriveLinear(wcs, data.shape, 1))])

\* cls(...) for the class named cls
New(cls, data, uncertainty, mask, wcs, meta, unit) ==
    CASE cls = "CubeData" -> NewCube(data, uncertainty, mask, wcs, meta, unit)
      [] cls = "SpectrumData" -> NewSpectrum(data, uncertainty, mask, wcs, meta, unit)
      [] cls = "ImageData" -> NewImage(data, uncertainty, mask, wcs, meta, unit)

\* ---------------------------------------------------------------- mask fitting

\* row-major position of index t in an array of shape s
RECURSIVE Flat(_, _)
Flat(t, s) ==
    IF t = << >> THEN 0 ELSE t[1] * Prod(Tail(s)) + Flat(Tail(t), Tail(s))

\* np.reshape(a, s), Prod(s) = Size(a)
Reshape(a, s) ==
    Arr(s, [t \in Idx(s) |->
              a.at[CHOOSE u \in Idx(a.shape) : Flat(u, a.shape) = Flat(t, s)]])

\* MaskedArray.__new__: a mask of another shape is resized when it has one
\* cell, reshaped when it has as many cells as the data, refused otherwise.
MaskFits(d, m) == m = None \/ m[1].shape = d.shape \/ Size(m[1]) = 1
                  \/ Size(m[1]) = Size(d)

FitMask(d, m) ==
    IF m = None THEN None
    ELSE IF m[1].shape = d.shape THEN m
    ELSE IF Size(m[1]) = 1
         THEN Some(Full(d.shape, m[1].at[CHOOSE u \in Idx(m[1].shape) : TRUE]))
    ELSE Some(Reshape(m[1], d.shape))

InvertOpt(m) == IF m = None THEN None ELSE Some(Invert(m[1]))

\* ---------------------------------------------------------------- CubeData

\* a[:, i, j] raises IndexError unless a has three axes and i, j are in range
CanSlice3(a, i, j) == Len(a.shape) = 3 /\ InRange3(a, i, j)

\* CubeData.get_spectrum(x, y)
get_spectrum(self, x, y) ==
    IF ~CanSlice3(self.data, y, x) THEN Raise("IndexError")
    ELSE IF self.uncertainty # None /\ ~CanSlice3(self.uncertainty[1], x, y)
         THEN Raise("IndexError")
    ELSE IF self.mask # None /\ ~CanSlice3(self.mask[1], x, y)
         THEN Raise("IndexError")
    ELSE NewSpectrum(Slice3(self.data, y, x),
                     IF self.uncertainty # None
                     THEN Some(Slice3(self.uncertainty[1], x, y)) ELSE None,
                     IF self.mask # None
                     THEN Some(Slice3(self.mask[1], x, y)) ELSE None,
                     self.wcs, self.meta, self.unit)

\* mdata.mean(axis=1).mean(axis=1)
MeanMean(ma) == MaskedMean(MaskedMean(ma, 1), 1)

\* CubeData.collapse_to_spectrum(method, filter_mask): the pair (spectrum,
\* ~new_mdata.mask); `out` carries the second component.
collapse_to_spectrum(self, method, filter_mask) ==
    IF filter_mask = None THEN Raise("TypeError")
    ELSE IF ~MaskFits(self.data, filter_mask) THEN Raise("MaskError")
    ELSE IF self.uncertainty = None THEN Raise("AttributeError")
    ELSE IF ~MaskFits(self.uncertainty[1], filter_mask) THEN Raise("MaskError")
    ELSE IF method = "median" THEN Raise("AttributeError")
    ELSE IF method # "mean" THEN Raise("UnboundLocalError")
    ELSE LET mdata == Masked(self.data, FitMask(self.data, InvertOpt(filter_mask)))
             udata == Masked(self.uncertainty[1],
                             FitMask(self.uncertainty[1], InvertOpt(filter_mask)))
             new_mdata == MeanMean(mdata)
             new_udata == MeanMean(udata)
         IN  NewSpectrum(new_mdata.data, Some(new_udata.data), udata.mask,
                         self.wcs, self.meta, self.unit)

\* the validity sequence returned beside the spectrum
collapse_validity(self, filter_mask) ==
    NotMask(MeanMean(Masked(self.data, FitMask(self.data, InvertOpt(filter_mask)))))

\* CubeData.collapse_to_image(wavelength_range, method, axis)
collapse_to_image(self, wavelength_range, method, axis) ==
    IF ~MaskFits(self.data, self.mask) THEN Raise("MaskError")
    ELSE LET m0 == Masked(self.data, FitMask(self.data, self.mask))
             mdata == IF wavelength_range = None THEN m0
                      ELSE MaskedSlice0(m0, wavelength_range[1][1],
                                        wavelength_range[1][2])
         IN  IF method = "mean"
             THEN NewImage(MaskedMean(mdata, axis).data, None, self.mask,
                           self.wcs, self.meta, self.unit)
             ELSE IF method = "median"
             THEN NewImage(MaskedMedian(mdata, axis).data, None, self.mask,
                           self.wcs, self.meta, self.unit)
             ELSE IF method = "mode" THEN Raise("UnboundLocalError")
             ELSE Raise("NotImplementedError")

\* ---------------------------------------------------------------- SpectrumData

\* SpectrumData.collapse(method, axis, filter_mask).  A reduction of a
\* one-axis spectrum leaves no axis 0 for the constructor to read.
collapse(self, method, axis, filter_mask) ==
    LET fm == InvertOpt(filter_mask)
    IN  IF ~MaskFits(self.data, fm) THEN Raise("MaskError")
        ELSE IF self.uncertainty = None THEN Raise("AttributeError")
        ELSE IF ~MaskFits(self.uncertainty[1], fm) THEN Raise("MaskError")
        ELSE IF method = "median" THEN Raise("AttributeError")
        ELSE IF method \notin {"mean", "sum"} THEN Raise("UnboundLocalError")
        ELSE IF axis >= Len(self.data.shape)
                \/ axis >= Len(self.uncertainty[1].shape) THEN Raise("AxisError")
        ELSE LET mdata == Masked(self.data, FitMask(self.data, fm))
                 udata == Masked(self.uncertainty[1],
                                 FitMask(self.uncertainty[1], fm))
                 new_mdata == IF method = "mean" THEN MaskedMean(mdata, axis)
                              ELSE MaskedSum(mdata, axis)
                 new_udata == IF method = "mean" THEN MaskedMean(udata, axis)
                              ELSE MaskedSum(udata, axis)
             IN  NewSpectrum(new_mdata.data, Some(new_udata.data),
                             Some(new_udata.data), self.wcs, self.meta, self.unit)

\* a flip that hands the source's dispersion to the result instead of letting
\* the constructor derive it; C10_Rederived tells it from flip
flip_carrying(self, axis1, axis2) ==
    IF axis1 >= Len(self.data.shape) \/ axis2 >= Len(self.data.shape)
    THEN Raise("AxisError")
    ELSE LET r == NewSpectrum(SwapAxes(self.data, axis1, axis2), self.uncertainty,
                              self.mask, self.wcs, self.meta, self.unit)
         IN  IF r.exc # "" THEN r
             ELSE Return([r.obj EXCEPT !.dispersion = self.dispersion])

\* SpectrumData.flip(axis1, axis2)
flip(self, axis1, axis2) ==
    IF axis1 >= Len(self.data.shape) \/ axis2 >= Len(self.data.shape)
    THEN Raise("AxisError")
    ELSE NewSpectrum(SwapAxes(self.data, axis1, axis2), self.uncertainty,
                     self.mask, self.wcs, self.meta, self.unit)

\* ---------------------------------------------------------------- arithmetic

\* numpy broadcasting: shapes are aligned on their last axis; two lengths are
\* compatible when equal or when one of them is 1.
DimAt(s, n, k) == IF k > n - Len(s) THEN s[k - (n - Len(s))] ELSE 1

Max(x, y) == IF x > y THEN x ELSE y

Broadcastable(s1, s2) ==
    LET n == Max(Len(s1), Len(s2))
    IN  \A k \in 1..n :
           DimAt(s1, n, k) = DimAt(s2, n, k) \/ DimAt(s1, n, k) = 1
           \/ DimAt(s2, n, k) = 1

BroadcastShape(s1, s2) ==
    LET n == Max(Len(s1), Len(s2))
    IN  [k \in 1..n |-> Max(DimAt(s1, n, k), DimAt(s2, n, k))]

\* the cell of a that index t of the broadcast result reads
BAt(a, t) ==
    LET off == Len(t) - Len(a.shape)
    IN  a.at[[k \in 1..Len(a.shape) |->
                 IF a.shape[k] = 1 THEN 0 ELSE t[k + off]]]

Apply(op, x, y) ==
    CASE op = "add" -> RAdd(x, y)
      [] op = "subtract" -> RSub(x, y)
      [] op = "multiply" -> RMul(x, y)
      [] op = "divide" -> RDiv(x, y)

\* a unit is None or <<e>>, the e-th power of the flux unit
UnitExp(u) == IF u = None THEN 0 ELSE u[1]

ResultUnit(op, u1, u2) ==
    CASE op \in {"add", "subtract"} -> u1
      [] op = "multiply" ->
            IF u1 = None /\ u2 = None THEN None ELSE Some(UnitExp(u1) + UnitExp(u2))
      [] op = "divide" ->
            IF u1 = None /\ u2 = None THEN None ELSE Some(UnitExp(u1) - UnitExp(u2))

\* astropy's NDArithmeticMixin.add / subtract / multiply / divide, as used
\* by the operators: the result is built with the receiver's class and the
\* receiver's wcs; uncertainties are propagated (values not tracked), masks
\* are or-ed, the metadata is not carried.
NDArith(self, op, operand) ==
    IF ~Broadcastable(self.data.shape, operand.data.shape) THEN Raise("ValueError")
    ELSE IF op \in {"add", "subtract"} /\ UnitExp(self.unit) # UnitExp(operand.unit)
         THEN Raise("UnitConversionError")
    ELSE LET s == BroadcastShape(self.data.shape, operand.data.shape)
             d == Arr(s, [t \in Idx(s) |->
                            Apply(op, BAt(self.data, t), BAt(operand.data, t))])
             u == IF operand.uncertainty = None THEN self.uncertainty
                  ELSE IF self.uncertainty = None THEN operand.uncertainty
                  ELSE Some(Full(s, Float))
             m == IF operand.mask = None THEN self.mask
                  ELSE IF self.mask = None THEN operand.mask
                  ELSE LET ms == BroadcastShape(self.mask[1].shape,
                                                operand.mask[1].shape)
                       IN  Some(Arr(ms, [t \in Idx(ms) |->
                                   Bool(Truthy(BAt(self.mask[1], t))
                                        \/ Truthy(BAt(operand.mask[1], t)))]))
         IN  IF operand.mask # None /\ self.mask # None
                /\ ~Broadcastable(self.mask[1].shape, operand.mask[1].shape)
             THEN Raise("ValueError")
             ELSE New(self.cls, d, u, m, self.wcs, "", ResultUnit(op, self.unit,
                                                                   operand.unit))

\* the operand kinds of the operators: a number, a raw array, a container
NoObject == NDData("", Full(<< >>, Float), None, None, "None", "", None)

Scalar(k) == [kind |-> "scalar", k |-> k, arr |-> Full(<< >>, Float), obj |-> NoObject]

RawArray(a) == [kind |-> "array", k |-> 0, arr |-> a, obj |-> NoObject]

Object(o) == [kind |-> "object", k |-> 0, arr |-> Full(<< >>, Float), obj |-> o]

\* an operator that builds its result with the class of a container operand
\* instead of the receiver's; C5_ArithmeticType tells it from Arithmetic
Arithmetic_as_operand(self, op, other) ==
    IF other.kind # "object"
    THEN LET new == IF other.kind = "scalar"
                    THEN Full(self.data.shape, Num(other.k)) ELSE other.arr
         IN  NDArith(self, op,
                     NDData("NDData", new, None, None, self.wcs, "", self.unit))
    ELSE NDArith([self EXCEPT !.cls = other.obj.cls], op,
                 NDData("NDData", other.obj.data, other.obj.uncertainty,
                        other.obj.mask, self.wcs, "", other.obj.unit))

\* BaseData.__add__ / __sub__ / __mul__ / __div__: `other` is wrapped in a
\* plain NDData carrying the receiver's wcs, then the mixin does the work.
Arithmetic(self, op, other) ==
    IF other.kind # "object"
    THEN LET new == IF other.kind = "scalar"
                    THEN Full(self.data.shape, Num(other.k)) ELSE other.arr
         IN  NDArith(self, op,
                     NDData("NDData", new, None, None, self.wcs, "", self.unit))
    ELSE NDArith(self, op,
                 NDData("NDData", other.obj.data, other.obj.uncertainty,
                        other.obj.mask, self.wcs, "", other.obj.unit))

\* ---------------------------------------------------------------- export

\* the four HDUs export_fits writes: the wcs header, data, ivar, mask
HDUList(self) ==
    <<self.wcs, self.data, self.uncertainty[1], AsType(self.mask[1])>>

\* an export that writes over an existing target; C7_ExportAtomic tells it
\* from export_fits
export_fits_clobber(self, path, fs) ==
    LET name == path \o ".fits"
    IN  IF self.uncertainty = None \/ self.mask = None \/ self.wcs = "None"
        THEN [exc |-> "AttributeError", files |-> fs]
        ELSE [exc |-> "", files |-> (name :> HDUList(self)) @@ fs]

\* BaseData.export_fits(path): the storage after the call, or the exception.
\* fits.HDUList.writeto refuses an existing file before writing anything.
export_fits(self, path, fs) ==
    LET name == path \o ".fits"
    IN  IF self.uncertainty = None \/ self.mask = None \/ self.wcs = "None"
        THEN [exc |-> "AttributeError", files |-> fs]
        ELSE IF name \in DOMAIN fs THEN [exc |-> "IOError", files |-> fs]
        ELSE [exc |-> "", files |-> (name :> HDUList(self)) @@ fs]

\* ---------------------------------------------------------------- inputs

Classes == {"CubeData", "SpectrumData", "ImageData"}

\* the shapes a container of each class is constructed with
ShapesOf(cls) ==
    CASE cls = "CubeData" ->
            {<<n, h, w>> : n \in 1..MaxN, h \in 1..MaxSide, w \in 1..MaxSide}
      [] cls = "SpectrumData" ->
            {<<n>> : n \in 1..MaxN} \cup {<<n, w>> : n \in 1..MaxN, w \in 1..MaxSide}
      [] cls = "ImageData" -> {<<h, w>> : h \in 1..MaxSide, w \in 1..MaxSide}

\* a number that tells the cells of an array apart
RECURSIVE Code(_)
Code(t) == IF t = << >> THEN 0 ELSE t[Len(t)] + (MaxN + MaxSide) * Code(SubSeq(t, 1, Len(t) - 1))

DataOf(s) == Arr(s, [t \in Idx(s) |-> Num(1 + Code(t))])

UncertaintyOf(s) == Arr(s, [t \in Idx(s) |-> Num(100 + 3 * Code(t))])

RECURSIVE SumSeq(_)
SumSeq(t) == IF t = << >> THEN 0 ELSE t[1] + SumSeq(Tail(t))

MaskOf(s) == Arr(s, [t \in Idx(s) |-> Bool(SumSeq(t) % 2 = 1)])

BoolArrays(s) == {Arr(s, f) : f \in [Idx(s) -> {BTrue, BFalse}]}

\* the (method, filter_mask) pairs collapse_to_spectrum is called with:
\* every boolean mask of the cube's shape, a spatial (H, W) mask, no mask
SpectrumCalls(self) ==
    ({"mean"} \X ({None} \cup {Some(a) : a \in BoolArrays(self.data.shape)}
                  \cup {Some(Full(Tail(self.data.shape), BTrue))}))
    \cup ({"median", "sum"} \X {Some(Full(self.data.shape, BTrue))})

ImageMethods == {"mean", "median", "mode", "bogus"}

Ranges == {None, Some(<<0, 1>>)}

SpectrumMethods == {"mean", "median", "sum", "bogus"}

FilterChoices(self) ==
    {None, Some(Full(self.data.shape, BTrue)), Some(MaskOf(self.data.shape))}

Operators == {"add", "subtract", "multiply", "divide"}

\* a container of class cls holding arrays of shape s, as a caller builds it
Operand(cls, s) ==
    New(cls, DataOf(s), Some(UncertaintyOf(s)), Some(MaskOf(s)), "lin", "other",
        Some(1)).obj

\* what an operator is applied to: a number, a raw array of the receiver's
\* shape, a container of each class of the receiver's shape, and every
\* object of the heap h
Operands(h, self) ==
    {Scalar(0), Scalar(2), RawArray(DataOf(self.data.shape))}
    \cup {Object(Operand(cls, self.data.shape)) : cls \in Classes}
    \cup {Object(h[j]) : j \in 1..Len(h)}

Paths == {"old", "out"}

\* a file some other program left in the storage
Foreign == <<"None", Full(<<1>>, Num(0)), Full(<<1>>, Num(0)), Full(<<1>>, Num(0))>>

Assignable == {Quantity(<<Lin(100 + k)>>, "pixel") : k \in 1..2}

Attributes == {"_dispersion", "_cross_dispersion", "_flux", "_error"}

\* ---------------------------------------------------------------- state machine

Call(op, recv, args, exc, res, out) ==
    [op |-> op, recv |-> recv, args |-> args, exc |-> exc, res |-> res, out |-> out]

Init ==
    /\ heap = << >>
    /\ files = ("old.fits" :> Foreign)
    /\ assigned = << >>
    /\ last = Call("", 0, << >>, "", 0, None)

\* there is room for one more object
Room == Len(heap) < MaxObjs

\* a call that builds an object: on success the object joins the heap, on an
\* exception nothing changes
Returns(op, recv, args, r, out) ==
    /\ IF r.exc = ""
       THEN /\ heap' = Append(heap, r.obj)
            /\ assigned' = Append(assigned, None)
            /\ last' = Call(op, recv, args, "", Len(heap) + 1, out)
       ELSE /\ UNCHANGED <<heap, assigned>>
            /\ last' = Call(op, recv, args, r.exc, 0, None)
    /\ UNCHANGED files

\* cls(data, uncertainty=..., mask=..., wcs=..., meta=..., unit=...) by the
\* caller, the three arrays of one shape
Construct ==
    /\ heap = << >>
    /\ \E cls \in Classes : \E s \in ShapesOf(cls) : \E w \in WcsNames :
       \E hasU \in BOOLEAN : \E hasM \in BOOLEAN :
          /\ Prod(s) <= MaxCells
          /\ Returns("construct", 0, <<cls, w>>,
                     New(cls, DataOf(s),
                         IF hasU THEN Some(UncertaintyOf(s)) ELSE None,
                         IF hasM THEN Some(MaskOf(s)) ELSE None,
                         w, "primary", Some(1)),
                     None)

GetSpectrum ==
    /\ Room
    /\ \E i \in 1..Len(heap) : \E x \in 0..(MaxSide - 1) : \E y \in 0..(MaxSide - 1) :
       /\ heap[i].cls = "CubeData"
       /\ Returns("get_spectrum", i, <<x, y>>, get_spectrum(heap[i], x, y), None)

CollapseToSpectrum ==
    /\ Room
    /\ \E i \in 1..Len(heap) :
       /\ heap[i].cls = "CubeData"
       /\ \E c \in SpectrumCalls(heap[i]) :
             LET r == collapse_to_spectrum(heap[i], c[1], c[2])
             IN  Returns("collapse_to_spectrum", i, <<c[1], c[2]>>, r,
                         IF r.exc = "" THEN Some(collapse_validity(heap[i], c[2]))
                         ELSE None)

CollapseToImage ==
    /\ Room
    /\ \E i \in 1..Len(heap) : \E wr \in Ranges : \E m \in ImageMethods :
         \E axis \in 0..2 :
       /\ heap[i].cls = "CubeData"
       /\ Returns("collapse_to_image", i, <<wr, m, axis>>,
                  collapse_to_image(heap[i], wr, m, axis), None)

Collapse ==
    /\ Room
    /\ \E i \in 1..Len(heap) : \E m \in SpectrumMethods : \E axis \in 0..1 :
       /\ heap[i].cls = "SpectrumData"
       /\ \E fm \in FilterChoices(heap[i]) :
             Returns("collapse", i, <<m, axis, fm>>,
                     collapse(heap[i], m, axis, fm), None)

Flip ==
    /\ Room
    /\ \E i \in 1..Len(heap) : \E axis1 \in 0..1 : \E axis2 \in 0..1 :
       /\ heap[i].cls = "SpectrumData"
       /\ Returns("flip", i, <<axis1, axis2>>, flip(heap[i], axis1, axis2), None)

\* a + b, a - b, a * b, a / b
Arith ==
    /\ Room
    /\ \E i \in 1..Len(heap) : \E op \in Operators : \E b \in Operands(heap, heap[i]) :
       Returns(op, i, <<b>>, Arithmetic(heap[i], op, b), None)

Export ==
    \E i \in 1..Len(heap) : \E path \in Paths :
       LET r == export_fits(heap[i], path, files)
       IN  /\ files' = r.files
           /\ last' = Call("export_fits", i, <<path>>, r.exc, 0, None)
           /\ UNCHANGED <<heap, assigned>>

\* spectrum.dispersion = value
SetDispersion ==
    \E i \in 1..Len(heap) : \E v \in Assignable :
       /\ heap[i].cls = "SpectrumData"
       /\ heap' = [heap EXCEPT ![i].dispersion = Some(v)]
       /\ assigned' = [assigned EXCEPT ![i] = Some(v)]
       /\ last' = Call("set_dispersion", i, <<v>>, "", 0, None)
       /\ UNCHANGED files

\* a read that derives the dispersion from the wcs again instead of returning
\* the stored attribute; C9_Frame tells it from get_dispersion
get_dispersion_rederived(self) ==
    IF self.cls = "SpectrumData"
    THEN Some(DeriveDispersion(self.wcs, self.data.shape))
    ELSE self.dispersion

\* SpectrumData.dispersion / get_dispersion(), ImageData.get_dispersion():
\* the stored attribute
get_dispersion(self) == self.dispersion

\* get_dispersion(), get_cross_dispersion(), get_flux(), get_error() and the
\* properties of the same names, without a unit conversion
get_attr(self, a) ==
    CASE a = "_dispersion" -> get_dispersion(self)
      [] a = "_cross_dispersion" -> self.cross_dispersion
      [] a = "_flux" -> self.flux
      [] a = "_error" -> self.error

\* an accessor call: AttributeError when the constructor never set the
\* attribute (flux and error exist on SpectrumData only)
GetAttr ==
    \E i \in 1..Len(heap) : \E a \in Attributes :
       /\ heap[i].cls \in {"SpectrumData", "ImageData"}
       /\ heap[i].cls = "ImageData" => a \in {"_dispersion", "_cross_dispersion"}
       /\ last' = IF a \notin heap[i].attrs
                  THEN Call("get", i, <<a>>, "AttributeError", 0, None)
                  ELSE Call("get", i, <<a>>, "", 0, Some(get_attr(heap[i], a)))
       /\ UNCHANGED <<heap, files, assigned>>

Next ==
    \/ Construct
    \/ GetSpectrum
    \/ CollapseToSpectrum
    \/ CollapseToImage
    \/ Collapse
    \/ Flip
    \/ Arith
    \/ Export
    \/ SetDispersion
    \/ GetAttr

Spec == Init /\ [][Next]_vars

\* ---------------------------------------------------------------- properties

Recv == heap[last.recv]

Res == heap[last.res]

ShapesAgree(o) ==
    /\ o.uncertainty # None => o.uncertainty[1].shape = o.data.shape
    /\ o.mask # None => o.mask[1].shape = o.data.shape

\* C1: every container reached from a constructed cube (whose three arrays
\* have one shape) has an uncertainty, when present, of the shape of its
\* data, and a mask, when present, of the shape of its data.
C1_ShapeInvariant ==
    (Len(heap) > 0 /\ heap[1].cls = "CubeData")
        => \A i \in 1..Len(heap) : ShapesAgree(heap[i])

\* C2: on a cube of shape (N, H, W) with a wcs and an uncertainty,
\* get_spectrum(x, y) with 0 <= x < W and 0 <= y < H returns a SpectrumData
\* whose flux is data[:, y, x], whose error is uncertainty[:, x, y], whose
\* mask (when the cube has one) is mask[:, x, y], with the cube's wcs, meta
\* and unit.
C2_GetSpectrum ==
    (/\ last.op = "get_spectrum"
     /\ Recv.wcs # "None"
     /\ Recv.uncertainty # None
     /\ last.args[1] < Recv.data.shape[3]
     /\ last.args[2] < Recv.data.shape[2])
        => /\ last.exc = ""
           /\ Res.cls = "SpectrumData"
           /\ Res.flux = Some(Quantity(Slice3(Recv.data, last.args[2], last.args[1]),
                                       Recv.unit))
           /\ Res.error = Some(Quantity(Slice3(Recv.uncertainty[1], last.args[1],
                                               last.args[2]), Recv.unit))
           /\ Recv.mask # None =>
                 Res.mask = Some(Slice3(Recv.mask[1], last.args[1], last.args[2]))
           /\ Res.wcs = Recv.wcs /\ Res.meta = Recv.meta /\ Res.unit = Recv.unit

\* C3: collapse_to_image with a method other than mean and median ("bogus",
\* "mode") raises NotImplementedError and returns no ImageData.
C3_UnknownMethod ==
    (last.op = "collapse_to_image" /\ last.args[2] \notin {"mean", "median"})
        => last.exc = "NotImplementedError" /\ last.res = 0

\* the cells of plane k of a three-axis array that filter mask fm keeps
KeptInPlane(fm, k) == {t \in Idx(fm.shape) : t[1] = k /\ Truthy(fm.at[t])}

\* a call collapse_to_spectrum('mean', fm) with fm a mask of the cube's shape
MeanCall ==
    /\ last.op = "collapse_to_spectrum"
    /\ last.args[1] = "mean"
    /\ last.args[2] # None
    /\ last.args[2][1].shape = Recv.data.shape

\* C4: collapse_to_spectrum('mean', filter_mask) on an (N, H, W) cube returns
\* a spectrum of length N and a validity sequence of length N whose entry k
\* is true exactly when filter_mask keeps a cell of plane k.
C4_Validity ==
    (MeanCall /\ Recv.uncertainty # None)
        => /\ last.exc = ""
           /\ Res.data.shape = <<Recv.data.shape[1]>>
           /\ last.out[1].shape = <<Recv.data.shape[1]>>
           /\ \A k \in 0..(Recv.data.shape[1] - 1) :
                 Truthy(last.out[1].at[<<k>>]) <=> KeptInPlane(last.args[2][1], k) # {}

\* the same of the calls that return: the shape and the validity sequence
\* are as C4 says whenever the SpectrumData constructor does not raise
C4_ValidityWhenReturned ==
    (MeanCall /\ last.exc = "")
        => /\ Res.data.shape = <<Recv.data.shape[1]>>
           /\ last.out[1].shape = <<Recv.data.shape[1]>>
           /\ \A k \in 0..(Recv.data.shape[1] - 1) :
                 Truthy(last.out[1].at[<<k>>]) <=> KeptInPlane(last.args[2][1], k) # {}

\* operands astropy's arithmetic accepts: shapes that broadcast and, for +
\* and -, the receiver's unit
Compatible(self, op, other) ==
    LET o == IF other.kind = "object" THEN other.obj
             ELSE NDData("NDData",
                         IF other.kind = "scalar" THEN Full(self.data.shape, Num(other.k))
                         ELSE other.arr, None, None, self.wcs, "", self.unit)
    IN  /\ Broadcastable(self.data.shape, o.data.shape)
        /\ (self.mask # None /\ o.mask # None)
              => Broadcastable(self.mask[1].shape, o.mask[1].shape)
        /\ op \in {"add", "subtract"} => UnitExp(self.unit) = UnitExp(o.unit)

\* C5: a op b, for op among + - * / and b a number, a raw array of matching
\* shape or a container of any class, returns a new instance of the class
\* of a, never of b, carrying the wcs of a.
C5_ArithmeticType ==
    (last.op \in Operators /\ Compatible(Recv, last.op, last.args[1]))
        => /\ last.exc = ""
           /\ last.res = Len(heap) /\ last.res # last.recv
           /\ Res.cls = Recv.cls
           /\ Res.wcs = Recv.wcs

\* an operator applied to a container of another class returned
C5_Witness ==
    /\ last.op \in Operators
    /\ last.args[1].kind = "object"
    /\ last.args[1].obj.cls # Recv.cls
    /\ last.args[1].obj.cls = "SpectrumData"
    /\ last.exc = ""

\* C6: SpectrumData(...) without a wcs is constructed, and its dispersion is
\* the index sequence 0..N-1 with no unit.
C6_NoWcs ==
    (last.op = "construct" /\ last.args = <<"SpectrumData", "None">>)
        => /\ last.exc = ""
           /\ Res.dispersion
                 = Some(Quantity([k \in 1..Res.data.shape[1] |-> Lin(k - 1)], ""))

\* C7: export_fits(path) creates no file but path + ".fits", changes no
\* file that exists, and leaves the storage as it was when it raises.
C7_ExportAtomic ==
    [][last'.op = "export_fits"
          => /\ DOMAIN files' \subseteq (DOMAIN files \cup {last'.args[1] \o ".fits"})
             /\ \A n \in DOMAIN files : n \in DOMAIN files' /\ files'[n] = files[n]
             /\ last'.exc # "" => files' = files]_vars

\* an export to a path it wrote before was refused
C7_Witness ==
    /\ last.op = "export_fits"
    /\ last.exc = "IOError"
    /\ last.args = <<"out">>
    /\ "out.fits" \in DOMAIN files

RECURSIVE SumAt(_, _)
SumAt(a, ts) ==
    IF ts = {} THEN Num(0)
    ELSE LET t == CHOOSE x \in ts : TRUE IN RAdd(a.at[t], SumAt(a, ts \ {t}))

\* the arithmetic mean of the cells of a at the indices ts
MeanAt(a, ts) == RDiv(SumAt(a, ts), Num(Cardinality(ts)))

\* C8: sample k of collapse_to_spectrum('mean', filter_mask) is the mean of
\* data[k, i, j] over the (i, j) that filter_mask keeps in plane k, each with
\* the same weight, and the same for the uncertainty.
C8_MeanOverKept ==
    (MeanCall /\ last.exc = "")
        => \A k \in 0..(Recv.data.shape[1] - 1) :
              KeptInPlane(last.args[2][1], k) # {}
                 => /\ Res.data.at[<<k>>]
                          = MeanAt(Recv.data, KeptInPlane(last.args[2][1], k))
                    /\ Res.uncertainty[1].at[<<k>>]
                          = MeanAt(Recv.uncertainty[1], KeptInPlane(last.args[2][1], k))

\* C9: no call changes a field of an object that exists, but an assignment
\* to dispersion, which changes that field of that object only; objects are
\* never dropped; and a read of a dispersion that was assigned returns the
\* value last assigned.
C9_Frame ==
    [][/\ Len(heap') >= Len(heap)
       /\ \A i \in 1..Len(heap) :
             \/ heap'[i] = heap[i]
             \/ /\ last'.op = "set_dispersion"
                /\ last'.recv = i
                /\ heap'[i] = [heap[i] EXCEPT !.dispersion = Some(last'.args[1])]
       /\ (/\ last'.op = "get"
           /\ last'.args = <<"_dispersion">>
           /\ assigned[last'.recv] # None)
             => last'.exc = "" /\ last'.out = Some(assigned[last'.recv])]_vars

\* the dispersion assigned to a spectrum was read back after another object
\* had been derived from it
C9_Witness ==
    /\ Len(heap) = 2
    /\ assigned[1] # None
    /\ last.op = "get"
    /\ last.recv = 1
    /\ last.args = <<"_dispersion">>
    /\ last.out = Some(assigned[1])

\* C10: the dispersion of a SpectrumData is, until it is assigned, the one
\* its constructor derives from its wcs and data.shape[0]: nothing of the
\* dispersion of the object it was derived from is carried over.
C10_Rederived ==
    \A i \in 1..Len(heap) :
       (heap[i].cls = "SpectrumData" /\ assigned[i] = None)
          => heap[i].dispersion = Some(DeriveDispersion(heap[i].wcs, heap[i].data.shape))

\* a spectrum was derived from one whose dispersion had been assigned
C10_Witness ==
    /\ Len(heap) = 2
    /\ last.op \in {"flip", "collapse", "add"}
    /\ last.recv = 1 /\ last.res = 2
    /\ assigned[1] # None
    /\ heap[1].dispersion # heap[2].dispersion

\* an ImageData is built without a wcs: by the caller, or by collapse_to_image
\* with an implemented method on a cube that has none
ImageWithoutWcs ==
    \/ last.op = "construct" /\ last.args = <<"ImageData", "None">>
    \/ /\ last.op = "collapse_to_image"
       /\ Recv.wcs = "None"
       /\ last.args[2] \in {"mean", "median"}

\* C11 as stated: building an ImageData without a wcs raises AttributeError
\* and returns nothing, so every ImageData that exists has its two axes.
C11_FailsAtConstruction ==
    /\ ImageWithoutWcs => last.exc = "AttributeError" /\ last.res = 0
    /\ \A i \in 1..Len(heap) :
          heap[i].cls = "ImageData"
             => {"_dispersion", "_cross_dispersion"} \subseteq heap[i].attrs

\* C11, amended: building an ImageData without a wcs returns an ImageData
\* that has neither axis; the AttributeError is raised later, by
\* get_dispersion() and get_cross_dispersion() on that object.
C11_LateFailure ==
    /\ ImageWithoutWcs
          => /\ last.exc = ""
             /\ Res.cls = "ImageData"
             /\ Res.wcs = "None"
             /\ Res.attrs = {}
    /\ (last.op = "get" /\ Recv.cls = "ImageData" /\ Recv.wcs = "None")
          => last.exc = "AttributeError"

\* an axis was asked of an ImageData that collapse_to_image made of a cube
\* without a wcs
C11_Witness ==
    /\ Len(heap) = 2
    /\ heap[1].cls = "CubeData" /\ heap[1].wcs = "None"
    /\ heap[2].cls = "ImageData" /\ heap[2].attrs = {}
    /\ last.op = "get" /\ last.recv = 2
    /\ last.exc = "AttributeError"

====
